---------------------------- MODULE Spec2Model ----------------------------
(***************************************************************************)
(* The persistent schema of the multi-tenant platform: tenants, users,     *)
(* roles, departments, invitations and the audit trail (audit logs, their  *)
(* signatures, usage metrics, sensitive-access logs).                      *)
(*                                                                         *)
(* The state is the content of the tables.  The operations are the ones    *)
(* every model inherits from the ORM: inserting a row (objects.create),    *)
(* and deleting a row (Model.delete), which walks the foreign keys that    *)
(* point at the row and applies each key's declared on_delete rule.  The   *)
(* foreign keys and the uniqueness constraints are transcribed, one        *)
(* definition each, from the field declarations in the models.             *)
(*                                                                         *)
(* Columns that no key or constraint reads (names, e-mail addresses,       *)
(* branding, ...) are left out, as are the columns the abstract base       *)
(* classes of apps.core contribute.                                        *)
(*                                                                         *)
(* The whole schema is too large to explore at once, so the operations are *)
(* grouped into specifications by the tables they work on (SpecAuditLog,   *)
(* SpecAudit, SpecMetadata, SpecMembers, SpecRoles, SpecMetrics,           *)
(* SpecTenant).  Every operation is the same in each of them; a deletion   *)
(* always walks every key of the schema.                                   *)
(***************************************************************************)
EXTENDS Integers, FiniteSets, Sequences, TLC

(***************************************************************************)
(* Bounds of the model: how many rows of a table are ever inserted (its    *)
(* sequence stops there), how many rows the application stores at once,    *)
(* and how far the clock advances.  MaxRows bounds the tables that have no *)
(* bound of their own.                                                     *)
(***************************************************************************)
MaxTenants == 2
MaxUsers == 2
MaxRoles == 2
MaxRows == 1
MaxLogs == 1
MaxMetrics == 2
MaxMetadataAudits == 2
MaxAssignments == 2
MaxClock == 1
MaxLive == 6

(***************************************************************************)
(* NULL in a nullable column.  Primary keys are counted from 1.            *)
(***************************************************************************)
Null == 0

(***************************************************************************)
(* on_delete rules (django.db.models.CASCADE / PROTECT / SET_NULL).        *)
(***************************************************************************)
CASCADE == "CASCADE"
PROTECT == "PROTECT"
SET_NULL == "SET_NULL"
DO_NOTHING == "DO_NOTHING"

ForeignKey(model, field, to, on_delete, null) ==
    [model |-> model, field |-> field, to |-> to, on_delete |-> on_delete,
     null |-> null]

(***************************************************************************)
(* apps/tenancies/models.py                                                *)
(***************************************************************************)
Tenant_parent_tenant == ForeignKey("Tenant", "parent_tenant", "Tenant", SET_NULL, TRUE)
TenantConfiguration_tenant ==
    ForeignKey("TenantConfiguration", "tenant", "Tenant", CASCADE, FALSE)
Role_tenant == ForeignKey("Role", "tenant", "Tenant", CASCADE, TRUE)
RolePermission_role == ForeignKey("RolePermission", "role", "Role", CASCADE, FALSE)
RolePermission_permission ==
    ForeignKey("RolePermission", "permission", "Permission", CASCADE, FALSE)
UserTenantRole_user == ForeignKey("UserTenantRole", "user", "User", CASCADE, FALSE)
UserTenantRole_tenant ==
    ForeignKey("UserTenantRole", "tenant", "Tenant", CASCADE, FALSE)
(* The key with the rule of its neighbours, CASCADE, instead of PROTECT. *)
UserTenantRole_role_Cascade ==
    ForeignKey("UserTenantRole", "role", "Role", CASCADE, FALSE)
UserTenantRole_role == ForeignKey("UserTenantRole", "role", "Role", PROTECT, FALSE)
Department_tenant == ForeignKey("Department", "tenant", "Tenant", CASCADE, FALSE)
Department_parent_department ==
    ForeignKey("Department", "parent_department", "Department", SET_NULL, TRUE)
UserDepartmentRole_user ==
    ForeignKey("UserDepartmentRole", "user", "User", CASCADE, FALSE)
UserDepartmentRole_department ==
    ForeignKey("UserDepartmentRole", "department", "Department", CASCADE, FALSE)
UserDepartmentRole_role ==
    ForeignKey("UserDepartmentRole", "role", "Role", PROTECT, FALSE)
Invitation_tenant == ForeignKey("Invitation", "tenant", "Tenant", CASCADE, FALSE)
Invitation_department ==
    ForeignKey("Invitation", "department", "Department", CASCADE, FALSE)
Invitation_invited_by_user ==
    ForeignKey("Invitation", "invited_by_user", "User", CASCADE, FALSE)
Invitation_role == ForeignKey("Invitation", "role", "Role", CASCADE, FALSE)
TenantAuditPolicy_tenant ==
    ForeignKey("TenantAuditPolicy", "tenant", "Tenant", CASCADE, FALSE)

(***************************************************************************)
(* apps/audit/models.py                                                    *)
(***************************************************************************)
AuditLog_tenant == ForeignKey("AuditLog", "tenant", "Tenant", CASCADE, FALSE)
(* The actor key cascading, and the actor key left dangling. *)
AuditLog_actor_id_Cascade == ForeignKey("AuditLog", "actor_id", "User", CASCADE, TRUE)
AuditLog_actor_id_DoNothing ==
    ForeignKey("AuditLog", "actor_id", "User", DO_NOTHING, TRUE)
AuditLog_actor_id == ForeignKey("AuditLog", "actor_id", "User", SET_NULL, TRUE)
AuditLog_target_content_type ==
    ForeignKey("AuditLog", "target_content_type", "ContentType", SET_NULL, TRUE)
AuditMetric_tenant == ForeignKey("AuditMetric", "tenant", "Tenant", CASCADE, FALSE)
AuditMetric_feature == ForeignKey("AuditMetric", "feature", "Feature", CASCADE, FALSE)
MetadataAudit_changed_by_user ==
    ForeignKey("MetadataAudit", "changed_by_user", "User", SET_NULL, TRUE)
(* Variation: the tenant of a metadata audit record deleted in cascade. *)
MetadataAudit_tenant_Cascade ==
    ForeignKey("MetadataAudit", "tenant", "Tenant", CASCADE, TRUE)
MetadataAudit_tenant ==
    ForeignKey("MetadataAudit", "tenant", "Tenant", SET_NULL, TRUE)
(* A signature that outlives its entry, and a signer that can be deleted. *)
AuditLogSignature_audit_log_DoNothing ==
    ForeignKey("AuditLogSignature", "audit_log", "AuditLog", DO_NOTHING, FALSE)
AuditLogSignature_signer_user_Cascade ==
    ForeignKey("AuditLogSignature", "signer_user", "User", CASCADE, FALSE)
AuditLogSignature_audit_log ==
    ForeignKey("AuditLogSignature", "audit_log", "AuditLog", CASCADE, FALSE)
AuditLogSignature_signer_user ==
    ForeignKey("AuditLogSignature", "signer_user", "User", PROTECT, FALSE)
SensitiveAccessLog_user ==
    ForeignKey("SensitiveAccessLog", "user", "User", CASCADE, FALSE)
SensitiveAccessLog_tenant ==
    ForeignKey("SensitiveAccessLog", "tenant", "Tenant", CASCADE, FALSE)

Relations ==
    { Tenant_parent_tenant, TenantConfiguration_tenant, Role_tenant,
      RolePermission_role, RolePermission_permission,
      UserTenantRole_user, UserTenantRole_tenant, UserTenantRole_role,
      Department_tenant, Department_parent_department,
      UserDepartmentRole_user, UserDepartmentRole_department,
      UserDepartmentRole_role,
      Invitation_tenant, Invitation_department, Invitation_invited_by_user,
      Invitation_role, TenantAuditPolicy_tenant,
      AuditLog_tenant, AuditLog_actor_id, AuditLog_target_content_type,
      AuditMetric_tenant, AuditMetric_feature,
      MetadataAudit_changed_by_user, MetadataAudit_tenant,
      AuditLogSignature_audit_log, AuditLogSignature_signer_user,
      SensitiveAccessLog_user, SensitiveAccessLog_tenant }

Models ==
    { "Tenant", "TenantConfiguration", "Role", "RolePermission",
      "UserTenantRole", "Department", "UserDepartmentRole", "Invitation",
      "TenantAuditPolicy", "User", "AuditLog", "AuditMetric",
      "MetadataAudit",
      "AuditLogSignature", "SensitiveAccessLog",
      "ContentType", "Feature", "Permission" }

(***************************************************************************)
(* The primary key column: the automatic id, except where a one-to-one     *)
(* field is declared primary_key=True.                                     *)
(***************************************************************************)
PK(model) ==
    CASE model = "AuditLogSignature" -> "audit_log"
      [] model = "TenantAuditPolicy" -> "tenant"
      [] OTHER -> "id"

(***************************************************************************)
(* unique_together declarations.                                           *)
(***************************************************************************)
UniqueTogether(model, fields) == [model |-> model, fields |-> fields]

Role_unique_together == UniqueTogether("Role", {"tenant", "name"})
RolePermission_unique_together == UniqueTogether("RolePermission", {"role", "permission"})
UserTenantRole_unique_together ==
    UniqueTogether("UserTenantRole", {"user", "tenant", "role"})
Department_unique_together == UniqueTogether("Department", {"tenant", "name"})
UserDepartmentRole_unique_together ==
    UniqueTogether("UserDepartmentRole", {"user", "department", "role"})
(* The constraint widened by the quantity column. *)
AuditMetric_unique_together_WithQuantity ==
    UniqueTogether("AuditMetric", {"tenant", "feature", "measured_at", "quantity_used"})
AuditMetric_unique_together ==
    UniqueTogether("AuditMetric", {"tenant", "feature", "measured_at"})

Uniques ==
    { Role_unique_together, RolePermission_unique_together,
      UserTenantRole_unique_together, Department_unique_together,
      UserDepartmentRole_unique_together, AuditMetric_unique_together }

(***************************************************************************)
(* The state: the rows of every table, the next automatic id of every      *)
(* table, the clock that auto_now_add reads, and the last operation with   *)
(* the exception it raised, if it raised one.                              *)
(***************************************************************************)
VARIABLES tables, seq, now, last

vars == <<tables, seq, now, last>>

ProtectedError == "ProtectedError"
IntegrityError == "IntegrityError"

NoError == ""

Outcome(op, model, pk, error) ==
    [op |-> op, model |-> model, pk |-> pk, error |-> error]

(***************************************************************************)
(* Model.delete(): the collector gathers the row, then every row reached   *)
(* from a gathered row through a CASCADE key.                              *)
(***************************************************************************)
Referrers(d, rel, S) ==
    { r \in d[rel.model] : <<rel.to, r[rel.field]>> \in S }

CascadeRelations == { q \in Relations : q.on_delete = CASCADE }
ProtectRelations == { q \in Relations : q.on_delete = PROTECT }
SetNullRelations == { q \in Relations : q.on_delete = SET_NULL }

CascadeStep(d, S) ==
    S \cup UNION { { <<rel.model, r[PK(rel.model)]>> : r \in Referrers(d, rel, S) } :
                   rel \in CascadeRelations }

RECURSIVE Collect(_, _)
Collect(d, S) ==
    LET T == CascadeStep(d, S)
    IN  IF T = S THEN S ELSE Collect(d, T)

(***************************************************************************)
(* A PROTECT key pointing at any gathered row makes the collector raise    *)
(* ProtectedError, also when the referring row is itself gathered.         *)
(***************************************************************************)
ProtectedObjects(d, S) ==
    UNION { { <<rel.model, r[PK(rel.model)]>> : r \in Referrers(d, rel, S) } :
            rel \in ProtectRelations }

(***************************************************************************)
(* A surviving row has each SET_NULL key that pointed at a gathered row    *)
(* set to NULL.                                                            *)
(***************************************************************************)
SetNulls(model, r, S) ==
    [ f \in DOMAIN r |->
        IF \E rel \in SetNullRelations :
              /\ rel.model = model
              /\ rel.field = f
              /\ <<rel.to, r[f]>> \in S
        THEN Null ELSE r[f] ]

Deleted(d, S) ==
    [ m \in Models |->
        { SetNulls(m, r, S) : r \in { x \in d[m] : <<m, x[PK(m)]>> \notin S } } ]

CanDelete(d, model, pk) ==
    ProtectedObjects(d, Collect(d, {<<model, pk>>})) = {}

Delete(d, model, pk) ==
    LET S == Collect(d, {<<model, pk>>})
    IN  IF ProtectedObjects(d, S) = {} THEN Deleted(d, S) ELSE d

(***************************************************************************)
(* objects.create(): the insert is refused with IntegrityError when the    *)
(* primary key is taken or a unique_together constraint has a row with the *)
(* same values.  NULLs are distinct in a unique constraint: a row with a   *)
(* NULL in one of the columns conflicts with none.                         *)
(***************************************************************************)
IsNull(model, f, row) ==
    \E rel \in Relations :
        rel.model = model /\ rel.field = f /\ rel.null /\ row[f] = Null

UniqueViolation(d, u, row) ==
    /\ \A f \in u.fields : ~IsNull(u.model, f, row)
    /\ \E r \in d[u.model] : \A f \in u.fields : r[f] = row[f]

CanInsert(d, model, row) ==
    /\ \A r \in d[model] : r[PK(model)] # row[PK(model)]
    /\ \A u \in { q \in Uniques : q.model = model } : ~UniqueViolation(d, u, row)

Insert(d, model, row) ==
    IF CanInsert(d, model, row)
    THEN [d EXCEPT ![model] = @ \cup {row}]
    ELSE d

Pks(model) == { r[PK(model)] : r \in tables[model] }

(* Tables whose rows the framework provides (django.contrib.contenttypes,   *)
(* django.contrib.auth) rather than the application.                       *)
FrameworkModels == {"ContentType", "Permission"}

(* The number of rows the application has stored, over all its tables. *)
RECURSIVE RowCount(_, _)
RowCount(d, ms) ==
    IF ms = {} THEN 0
    ELSE LET m == CHOOSE x \in ms : TRUE
         IN  Cardinality(d[m]) + RowCount(d, ms \ {m})


(***************************************************************************)
(* Query results are sequences of rows.  A table is read in the order of   *)
(* its primary key.                                                        *)
(***************************************************************************)
RECURSIVE OrderBy(_, _)
OrderBy(rows, f) ==
    IF rows = {} THEN <<>>
    ELSE LET first == CHOOSE r \in rows : \A x \in rows : r[f] <= x[f]
         IN  <<first>> \o OrderBy(rows \ {first}, f)

(* values_list(field, flat=True): one value per row, repeated values kept. *)
values_list(rs, f) == [ i \in 1..Len(rs) |-> rs[i][f] ]

(* filter(field__in=values) *)
filter_in(rs, f, values) ==
    SelectSeq(rs, LAMBDA r : \E i \in 1..Len(values) : values[i] = r[f])

(* distinct(): a row equal to an earlier row of the result is dropped. *)
RECURSIVE distinct(_)
distinct(rs) ==
    IF rs = <<>> THEN <<>>
    ELSE LET init == distinct(SubSeq(rs, 1, Len(rs) - 1))
             r == rs[Len(rs)]
         IN  IF \E i \in 1..Len(init) : init[i] = r THEN init ELSE Append(init, r)

(***************************************************************************)
(* User.usertenantrole_set and User.get_tenants (apps/users/models.py).    *)
(***************************************************************************)
usertenantrole_set(user) ==
    OrderBy({ r \in tables["UserTenantRole"] : r.user = user }, "id")

(* The tenants reached by joining through the user's roles, one per role. *)
get_tenants_Join(user) ==
    LET roles == usertenantrole_set(user)
    IN  [ i \in 1..Len(roles) |->
            CHOOSE t \in tables["Tenant"] : t.id = roles[i].tenant ]

get_tenants(user) ==
    LET tenant_ids == values_list(usertenantrole_set(user), "tenant")
    IN  distinct(filter_in(OrderBy(tables["Tenant"], "id"), "id", tenant_ids))

(***************************************************************************)
(* Field values the operations draw from.                                  *)
(***************************************************************************)
RoleNames == {"admin", "viewer"}
Quantities == {1, 5}
DepartmentNames == {"sales"}

(***************************************************************************)
(* The data columns of an audit log entry, as the caller supplies them: an *)
(* entry of actor type "user" about a target object, and a "system" entry  *)
(* without a target.  An entry names an actor exactly when its actor type  *)
(* is "user", and a target content type exactly when it has a target.      *)
(***************************************************************************)
AuditLogData ==
    { [actor_type |-> "user", action |-> "user.login", target_object_id |-> 7,
       data_before |-> "{}", data_after |-> "{seen}", checksum |-> "c1"],
      [actor_type |-> "system", action |-> "invoice.created", target_object_id |-> Null,
       data_before |-> "null", data_after |-> "{paid}", checksum |-> "c2"] }

(***************************************************************************)
(* MetadataAudit.Operation, and the data columns of a metadata audit       *)
(* record as the caller supplies them: a row inserted into a global table  *)
(* by no user and in no tenant, a row of a tenant updated by a user, and a *)
(* row of a tenant deleted by the system.                                  *)
(***************************************************************************)
Operation == {"INSERT", "UPDATE", "DELETE"}

MetadataAuditData ==
    { [table_name |-> "features", record_id |-> "f-1", operation |-> "INSERT",
       before_state |-> "null", after_state |-> "{on}",
       by_user |-> FALSE, in_tenant |-> FALSE],
      [table_name |-> "roles", record_id |-> "12", operation |-> "UPDATE",
       before_state |-> "{admin}", after_state |-> "{owner}",
       by_user |-> TRUE, in_tenant |-> TRUE],
      [table_name |-> "departments", record_id |-> "3", operation |-> "DELETE",
       before_state |-> "{sales}", after_state |-> "null",
       by_user |-> FALSE, in_tenant |-> TRUE] }

Init ==
    /\ tables = [ m \in Models |->
                    IF m \in FrameworkModels THEN {[id |-> 1]} ELSE {} ]
    /\ seq = [ m \in Models |-> IF m \in FrameworkModels THEN 2 ELSE 1 ]
    /\ now = 0
    /\ last = Outcome("migrate", "", Null, NoError)

(***************************************************************************)
(* Inserting a row.  The automatic id is drawn from the table's sequence,  *)
(* which advances whether or not the insert is accepted.                   *)
(***************************************************************************)
Create(model, row, bound) ==
    /\ seq[model] <= bound
    /\ RowCount(tables, Models \ FrameworkModels) < MaxLive
    /\ tables' = Insert(tables, model, row)
    /\ seq' = [seq EXCEPT ![model] = @ + 1]
    /\ last' = Outcome("create", model, row[PK(model)],
                       IF CanInsert(tables, model, row) THEN NoError ELSE IntegrityError)
    /\ UNCHANGED now

(* A row whose primary key is a one-to-one key takes no id from a sequence. *)
CreateKeyed(model, row) ==
    /\ RowCount(tables, Models \ FrameworkModels) < MaxLive
    /\ tables' = Insert(tables, model, row)
    /\ last' = Outcome("create", model, row[PK(model)],
                       IF CanInsert(tables, model, row) THEN NoError ELSE IntegrityError)
    /\ UNCHANGED <<seq, now>>

DeleteRow(model, pk) ==
    /\ tables' = Delete(tables, model, pk)
    /\ last' = Outcome("delete", model, pk,
                       IF CanDelete(tables, model, pk) THEN NoError ELSE ProtectedError)
    /\ UNCHANGED <<seq, now>>

Tick ==
    /\ now < MaxClock
    /\ now' = now + 1
    /\ last' = Outcome("tick", "", Null, NoError)
    /\ UNCHANGED <<tables, seq>>

(***************************************************************************)
(* apps/tenancies/models.py                                                *)
(***************************************************************************)
CreateTenant ==
    \E parent \in Pks("Tenant") \cup {Null} :
        Create("Tenant", [id |-> seq["Tenant"], parent_tenant |-> parent], MaxTenants)

(* Model.save() on a stored tenant: the tenant is given another parent. *)
UpdateTenant ==
    \E t \in tables["Tenant"], parent \in Pks("Tenant") \cup {Null} :
        /\ parent # t.parent_tenant
        /\ tables' = [tables EXCEPT !["Tenant"] =
                          (@ \ {t}) \cup {[t EXCEPT !.parent_tenant = parent]}]
        /\ last' = Outcome("update", "Tenant", t.id, NoError)
        /\ UNCHANGED <<seq, now>>

CreateTenantConfiguration ==
    \E t \in Pks("Tenant") :
        Create("TenantConfiguration",
               [id |-> seq["TenantConfiguration"], tenant |-> t], MaxRows)

CreateRole ==
    \E t \in Pks("Tenant") \cup {Null}, n \in RoleNames :
        Create("Role", [id |-> seq["Role"], tenant |-> t, name |-> n], MaxRoles)

CreateRolePermission ==
    \E r \in Pks("Role"), p \in Pks("Permission") :
        Create("RolePermission",
               [id |-> seq["RolePermission"], role |-> r, permission |-> p], MaxRows)

CreateUserTenantRole ==
    \E u \in Pks("User"), t \in Pks("Tenant"), r \in Pks("Role") :
        Create("UserTenantRole",
               [id |-> seq["UserTenantRole"], user |-> u, tenant |-> t, role |-> r],
               MaxAssignments)

CreateDepartment ==
    \E t \in Pks("Tenant"), parent \in Pks("Department") \cup {Null},
       n \in DepartmentNames :
        Create("Department",
               [id |-> seq["Department"], tenant |-> t, parent_department |-> parent,
                name |-> n], MaxRows)

CreateUserDepartmentRole ==
    \E u \in Pks("User"), d \in Pks("Department"), r \in Pks("Role") :
        Create("UserDepartmentRole",
               [id |-> seq["UserDepartmentRole"], user |-> u, department |-> d,
                role |-> r], MaxRows)

CreateInvitation ==
    \E t \in Pks("Tenant"), d \in Pks("Department"), u \in Pks("User"),
       r \in Pks("Role") :
        Create("Invitation",
               [id |-> seq["Invitation"], tenant |-> t, department |-> d,
                invited_by_user |-> u, role |-> r], MaxRows)

CreateTenantAuditPolicy ==
    \E t \in Pks("Tenant") :
        CreateKeyed("TenantAuditPolicy", [tenant |-> t])

DeleteTenant == \E pk \in Pks("Tenant") : DeleteRow("Tenant", pk)
DeleteRole == \E pk \in Pks("Role") : DeleteRow("Role", pk)
DeleteDepartment == \E pk \in Pks("Department") : DeleteRow("Department", pk)
DeleteUserTenantRole ==
    \E pk \in Pks("UserTenantRole") : DeleteRow("UserTenantRole", pk)

(***************************************************************************)
(* apps/users/models.py                                                    *)
(***************************************************************************)
CreateUser ==
    \E id \in {seq["User"]} : Create("User", [id |-> id], MaxUsers)

DeleteUser == \E pk \in Pks("User") : DeleteRow("User", pk)

(***************************************************************************)
(* apps/audit/models.py                                                    *)
(***************************************************************************)
CreateAuditLog ==
    \E t \in Pks("Tenant"), data \in AuditLogData :
      \E actor \in IF data.actor_type = "user" THEN Pks("User") ELSE {Null},
         ct \in IF data.target_object_id # Null THEN Pks("ContentType") ELSE {Null} :
        Create("AuditLog",
               [id |-> seq["AuditLog"], tenant |-> t, actor_id |-> actor,
                actor_type |-> data.actor_type, action |-> data.action,
                target_content_type |-> ct,
                target_object_id |-> data.target_object_id,
                created_at |-> now,
                data_before |-> data.data_before, data_after |-> data.data_after,
                checksum |-> data.checksum], MaxLogs)

CreateAuditMetric ==
    \E t \in Pks("Tenant"), f \in Pks("Feature"), q \in Quantities :
        Create("AuditMetric",
               [id |-> seq["AuditMetric"], tenant |-> t, feature |-> f,
                quantity_used |-> q, measured_at |-> now], MaxMetrics)

CreateAuditLogSignature ==
    \E l \in Pks("AuditLog"), u \in Pks("User") :
        CreateKeyed("AuditLogSignature",
                    [audit_log |-> l, signature |-> "sig", signed_at |-> now,
                     signer_user |-> u])

CreateSensitiveAccessLog ==
    \E u \in Pks("User"), t \in Pks("Tenant") :
        Create("SensitiveAccessLog",
               [id |-> seq["SensitiveAccessLog"], user |-> u, tenant |-> t], MaxRows)

DeleteAuditLog == \E pk \in Pks("AuditLog") : DeleteRow("AuditLog", pk)

CreateMetadataAudit ==
    \E data \in MetadataAuditData :
      \E u \in IF data.by_user THEN Pks("User") ELSE {Null},
         t \in IF data.in_tenant THEN Pks("Tenant") ELSE {Null} :
        Create("MetadataAudit",
               [id |-> seq["MetadataAudit"],
                table_name |-> data.table_name, record_id |-> data.record_id,
                operation |-> data.operation,
                before_state |-> data.before_state,
                after_state |-> data.after_state,
                changed_at |-> now,
                changed_by_user |-> u, tenant |-> t], MaxMetadataAudits)

(***************************************************************************)
(* Models the schema refers to but does not define.                        *)
(***************************************************************************)
CreateFeature ==
    \E id \in {seq["Feature"]} : Create("Feature", [id |-> id], MaxRows)
DeleteFeature == \E pk \in Pks("Feature") : DeleteRow("Feature", pk)
DeleteContentType == \E pk \in Pks("ContentType") : DeleteRow("ContentType", pk)

(***************************************************************************)
(* The audit log: tenants, users, content types and audit log entries.     *)
(***************************************************************************)
NextAuditLog ==
    \/ CreateTenant
    \/ UpdateTenant
    \/ CreateUser
    \/ CreateAuditLog
    \/ DeleteTenant
    \/ DeleteUser
    \/ DeleteAuditLog
    \/ DeleteContentType

SpecAuditLog == Init /\ [][NextAuditLog]_vars

(***************************************************************************)
(* The signed audit trail: tenants, users, content types, audit log        *)
(* entries and their signatures.                                           *)
(***************************************************************************)
NextAudit ==
    \/ CreateTenant
    \/ CreateUser
    \/ CreateAuditLog
    \/ CreateAuditLogSignature
    \/ DeleteTenant
    \/ DeleteUser
    \/ DeleteAuditLog
    \/ DeleteContentType

SpecAudit == Init /\ [][NextAudit]_vars

(***************************************************************************)
(* Roles and their assignments: tenants, users, roles, departments, role   *)
(* assignments and invitations.                                            *)
(***************************************************************************)
NextRoles ==
    \/ CreateTenant
    \/ CreateUser
    \/ CreateRole
    \/ CreateRolePermission
    \/ CreateUserTenantRole
    \/ CreateDepartment
    \/ CreateUserDepartmentRole
    \/ CreateInvitation
    \/ DeleteTenant
    \/ DeleteRole

SpecRoles == Init /\ [][NextRoles]_vars

(***************************************************************************)
(* Tenant membership: tenants, users, roles and the users' roles in        *)
(* tenants.                                                                *)
(***************************************************************************)
NextMembers ==
    \/ CreateTenant
    \/ CreateUser
    \/ CreateRole
    \/ CreateUserTenantRole
    \/ DeleteTenant
    \/ DeleteUser
    \/ DeleteRole
    \/ DeleteUserTenantRole

SpecMembers == Init /\ [][NextMembers]_vars

(***************************************************************************)
(* Metered usage: tenants, features, the clock and the usage metrics.      *)
(***************************************************************************)
NextMetrics ==
    \/ CreateTenant
    \/ CreateFeature
    \/ CreateAuditMetric
    \/ Tick
    \/ DeleteTenant
    \/ DeleteFeature

SpecMetrics == Init /\ [][NextMetrics]_vars

(***************************************************************************)
(* Everything a tenant owns, and the deletion of tenants.                  *)
(***************************************************************************)
NextTenant ==
    \/ CreateTenant
    \/ CreateUser
    \/ CreateFeature
    \/ CreateTenantConfiguration
    \/ CreateRole
    \/ CreateUserTenantRole
    \/ CreateDepartment
    \/ CreateInvitation
    \/ CreateTenantAuditPolicy
    \/ CreateAuditLog
    \/ CreateAuditMetric
    \/ CreateSensitiveAccessLog
    \/ DeleteTenant

SpecTenant == Init /\ [][NextTenant]_vars

(***************************************************************************)
(* Change tracking of metadata tables: tenants, users and the metadata     *)
(* audit records.                                                          *)
(***************************************************************************)
NextMetadata ==
    \/ CreateTenant
    \/ CreateUser
    \/ CreateMetadataAudit
    \/ DeleteTenant
    \/ DeleteUser

SpecMetadata == Init /\ [][NextMetadata]_vars

(***************************************************************************)
(*                         The audit trail                                 *)
(***************************************************************************)

C1_AuditLogAfter(l) ==
    [l EXCEPT !.actor_id = IF @ \in Pks("User")' THEN @ ELSE Null,
              !.target_content_type = IF @ \in Pks("ContentType")' THEN @ ELSE Null]

C3_SignatureOfExistingLog ==
    /\ \A l \in Pks("AuditLog") :
           Cardinality({ g \in tables["AuditLogSignature"] : g.audit_log = l }) <= 1
    /\ \A g \in tables["AuditLogSignature"] : g.audit_log \in Pks("AuditLog")

(* A second signature for a signed entry has just been refused. *)
C3_Witness ==
    /\ last = Outcome("create", "AuditLogSignature", last.pk, IntegrityError)
    /\ \E g \in tables["AuditLogSignature"] : g.audit_log = last.pk

(***************************************************************************)
(* C4: no step removes a user who is the signer of a signature; the        *)
(* deletion of such a user raises ProtectedError and leaves every table    *)
(* as it was; and every signature names a signer that exists.              *)
(***************************************************************************)
Signers == { g.signer_user : g \in tables["AuditLogSignature"] }

C4_SignerDeletionRejected ==
    [][ /\ \A u \in Signers :
              /\ u \in Pks("User")'
              /\ (last'.op = "delete" /\ last'.model = "User" /\ last'.pk = u)
                    => (last'.error = ProtectedError /\ tables' = tables)
        /\ Signers' \subseteq Pks("User")' ]_vars

(* The deletion of a signer has just been refused. *)
C4_Witness ==
    /\ last = Outcome("delete", "User", last.pk, ProtectedError)
    /\ last.pk \in Signers

(***************************************************************************)
(* C10: a step that deletes a user keeps every audit log entry of which    *)
(* the user was the actor: the entry is still stored, its actor_id is      *)
(* NULL and every other field is as before.                                *)
(***************************************************************************)
C10_ActorDeletionKeepsEntry ==
    [][ \A u \in Pks("User") \ Pks("User")' :
          \A l \in tables["AuditLog"] :
              l.actor_id = u =>
                  [l EXCEPT !.actor_id = Null] \in tables'["AuditLog"] ]_vars

(* The actor of a "user" entry has been deleted, and the entry is there. *)
C10_Witness ==
    /\ last = Outcome("delete", "User", last.pk, NoError)
    /\ \E l \in tables["AuditLog"] : l.actor_type = "user" /\ l.actor_id = Null

(***************************************************************************)
(* C11: a metadata audit record survives the deletion of the tenant and of *)
(* the user it refers to.  A step that deletes tenants or users keeps      *)
(* every metadata audit record: the record is still stored, its reference  *)
(* to a deleted tenant or user is NULL, and its table name, record id,     *)
(* operation, before-state, after-state, time of change and its reference  *)
(* to a tenant or user that is still stored are as before.                 *)
(***************************************************************************)
C11_MetadataAuditSurvives ==
    [][ LET gone_tenants == Pks("Tenant") \ Pks("Tenant")'
            gone_users == Pks("User") \ Pks("User")'
        IN  gone_tenants \cup gone_users # {} =>
              \A m \in tables["MetadataAudit"] :
                  [m EXCEPT
                     !.tenant = IF @ \in gone_tenants THEN Null ELSE @,
                     !.changed_by_user = IF @ \in gone_users THEN Null ELSE @]
                      \in tables'["MetadataAudit"] ]_vars

(* A tenant or a user has been deleted, and the record of an update made   *)
(* by a user in a tenant is there without one of the two.                  *)
C11_Witness ==
    /\ last.op = "delete" /\ last.model \in {"Tenant", "User"}
    /\ last.error = NoError
    /\ \E m \in tables["MetadataAudit"] :
          /\ m.operation = "UPDATE"
          /\ m.tenant = Null \/ m.changed_by_user = Null

(***************************************************************************)
(*                        Tenant membership                                *)
(***************************************************************************)
Range(q) == { q[i] : i \in 1..Len(q) }

(***************************************************************************)
(* C5: get_tenants(user) lists exactly the tenants in which the user holds *)
(* at least one UserTenantRole, and lists each of them once.               *)
(***************************************************************************)
C5_GetTenants ==
    \A u \in Pks("User") :
        LET result == get_tenants(u)
        IN  /\ { t.id : t \in Range(result) } =
                  { r.tenant : r \in { x \in tables["UserTenantRole"] : x.user = u } }
            /\ Range(result) \subseteq tables["Tenant"]
            /\ \A i, j \in 1..Len(result) : result[i] = result[j] => i = j

(* A user holds two roles in one tenant, which get_tenants lists once. *)
C5_Witness ==
    \E u \in Pks("User") :
        /\ \E a, b \in tables["UserTenantRole"] :
               a.user = u /\ b.user = u /\ a.tenant = b.tenant /\ a.role # b.role
        /\ Len(get_tenants(u)) = 1

(***************************************************************************)
(* C6 (as stated): every existing user is associated with at least one     *)
(* tenant.                                                                 *)
(***************************************************************************)
C6_UserBelongsToTenant ==
    \A u \in Pks("User") : get_tenants(u) # <<>>

(***************************************************************************)
(* C9 (as stated): no two roles have the same (tenant, name), the tenant   *)
(* being a tenant or NULL for a system role.                               *)
(***************************************************************************)
C9_RoleNameUnique ==
    \A a, b \in tables["Role"] :
        (a.tenant = b.tenant /\ a.name = b.name) => a = b

(***************************************************************************)
(*                     Roles and their assignments                         *)
(***************************************************************************)
AssignedRoles ==
    { r.role : r \in tables["UserTenantRole"] \cup tables["UserDepartmentRole"] }

(***************************************************************************)
(* C7: deleting a role that a UserTenantRole or a UserDepartmentRole       *)
(* assigns raises ProtectedError and leaves every table as it was.         *)
(***************************************************************************)
C7_AssignedRoleDeletionRejected ==
    [][ \A r \in AssignedRoles :
          (last'.op = "delete" /\ last'.model = "Role" /\ last'.pk = r)
             => (last'.error = ProtectedError /\ tables' = tables) ]_vars

(* The deletion of a role assigned in a department has just been refused. *)
C7_Witness ==
    /\ last = Outcome("delete", "Role", last.pk, ProtectedError)
    /\ \E r \in tables["UserDepartmentRole"] : r.role = last.pk
    /\ last.pk \in Pks("Role")

(***************************************************************************)
(*                    The tenant as root of the data                       *)
(***************************************************************************)

(* The tenant of the stored row of a model that has a tenant column. *)
TenantOf(model, pk) ==
    (CHOOSE r \in tables[model] : r[PK(model)] = pk).tenant

(***************************************************************************)
(* C12 (as stated): the role of every UserTenantRole is a system role      *)
(* (tenant NULL) or a role of the assignment's tenant, and the department  *)
(* and the role of every Invitation are of the invitation's tenant (the    *)
(* role may also be a system role).                                        *)
(***************************************************************************)
C12_TenantIsolation ==
    /\ \A a \in tables["UserTenantRole"] :
          TenantOf("Role", a.role) \in {Null, a.tenant}
    /\ \A i \in tables["Invitation"] :
          /\ TenantOf("Department", i.department) = i.tenant
          /\ TenantOf("Role", i.role) \in {Null, i.tenant}

TenantOwned ==
    { "AuditLog", "AuditMetric", "SensitiveAccessLog", "TenantConfiguration",
      "Role", "Department", "Invitation", "UserTenantRole", "TenantAuditPolicy" }

(***************************************************************************)
(* C2 (as stated): a step that deletes a tenant leaves no row of the       *)
(* tenant-owned tables that referred to the tenant, and leaves the rows of *)
(* every other tenant in those tables as they were.                        *)
(***************************************************************************)
C2_TenantDeletionPartitions ==
    [][ \A t \in Pks("Tenant") \ Pks("Tenant")' :
          \A m \in TenantOwned :
              /\ \A r \in tables'[m] : r.tenant # t
              /\ { r \in tables'[m] : r.tenant # t } = { r \in tables[m] : r.tenant # t } ]_vars

(***************************************************************************)
(*                           Metered usage                                 *)
(***************************************************************************)

(***************************************************************************)
(* C8: there is at most one AuditMetric per (tenant, feature,              *)
(* measured_at), and an insert refused for repeating the three values      *)
(* leaves every table as it was.                                           *)
(***************************************************************************)
MetricsUnique ==
    \A a, b \in tables["AuditMetric"] :
        (a.tenant = b.tenant /\ a.feature = b.feature /\ a.measured_at = b.measured_at)
           => a = b

C8_OneMetricPerMeasurement ==
    [][ /\ MetricsUnique'
        /\ (last'.op = "create" /\ last'.model = "AuditMetric"
               /\ last'.error = IntegrityError) => tables' = tables ]_vars

(* A second metric of the same tenant, feature and instant was refused. *)
C8_Witness ==
    /\ last = Outcome("create", "AuditMetric", last.pk, IntegrityError)
    /\ \E a \in tables["AuditMetric"] : a.measured_at = now

==========================================================================
